---- MODULE Spec2Model ----
(***************************************************************************)
(* A model of bot.py: main, load_mtg_set (the sets query, the per-card     *)
(* abbreviation loop, the return), generate_prompt, explain_set and        *)
(* explain_cards.                                                          *)
(*                                                                         *)
(* Python strings are TLA+ strings; Len, SubSeq and \o act on them         *)
(* character by character.  The em dash U+2014 of the source (in the key   *)
(* ' -- ' of TEXT_MAPPING and in type lines) is written "~" here, since a  *)
(* module holds ASCII only; no other string of the model uses "~".         *)
(* A database value that may be NULL (Python None) is <<>> when it is NULL *)
(* and <<s>> when it is the string s.  An exception is the pair of its     *)
(* type and its argument, <<>> while none was raised.                      *)
(***************************************************************************)
EXTENDS Integers, Sequences, FiniteSets, TLC

VARIABLES pc, env_key, sets_rows, rows, cursor, set_data, cards, error, printed

vars == <<pc, env_key, sets_rows, rows, cursor, set_data, cards, error, printed>>

(***************************************************************************)
(* Bounds of the model.                                                    *)
(***************************************************************************)
MaxCards == 2
MaxTokens == 3

None == <<>>
Some(s) == <<s>>
IsNone(v) == v = <<>>
Val(v) == v[1]

(***************************************************************************)
(* The dictionaries, in the insertion order Python iterates them in.       *)
(***************************************************************************)
SUPER_TYPE_MAPPING ==
  << <<"Artifact", "A">>, <<"Aura", "A2">>, <<"Creature", "C">>,
     <<"Enchantment", "E">>, <<"Instant", "I">>, <<"Interrupt", "I2">>,
     <<"Land", "L">>, <<"Legendary", "L2">>, <<"Planeswalker", "P">>,
     <<"Sorcery", "S">> >>

SUB_TYPE_MAPPING ==
  << <<"Advisor", "Ad">>, <<"Angel", "An">>, <<"Artificer", "Ar">>,
     <<"Assassin", "As">>, <<"Barbarian", "Ba">>, <<"Beast", "Be">>,
     <<"Bird", "Bi">>, <<"Cleric", "Cl">>, <<"Construct", "Co">>,
     <<"Demon", "De">>, <<"Dinosaur", "Di">>, <<"Dragon", "Dr">>,
     <<"Dreadnought", "Dr2">>, <<"Druid", "Dr3">>, <<"Dwarf", "Dw">>,
     <<"Elemental", "El">>, <<"Equipment", "Eq">>, <<"Faerie", "Fa">>,
     <<"Goblin", "Go">>, <<"Golem", "Go2">>, <<"Horror", "Ho">>,
     <<"Human", "Hu">>, <<"Insect", "In">>, <<"Juggernaut", "Ju">>,
     <<"Lizard", "Li">>, <<"Minotaur", "Mi">>, <<"Mole", "Mo">>,
     <<"Monk", "Mo2">>, <<"Phyrexian", "Ph">>, <<"Praetor", "Pr">>,
     <<"Rat", "Ra">>, <<"Scout", "Sc">>, <<"Shapeshifter", "Sh">>,
     <<"Soldier", "So">>, <<"Thopter", "Th">>, <<"Wall", "Wa">>,
     <<"Warlock", "Wa2">>, <<"Wizard", "Wi">>, <<"Wurm", "Wu">>,
     <<"Zombie", "Zo">> >>

LAND_MAPPING ==
  << <<"Basic", "BaL">>, <<"Forest", "FoL">>, <<"Island", "IsL">>,
     <<"Mountain", "MoL">>, <<"Plains", "PlL">>, <<"Swamp", "SwL">> >>

RARITY_MAPPING ==
  << <<"common", "C">>, <<"uncommon", "U">>, <<"rare", "R">>,
     <<"mythic", "M">> >>

KEYWORD_MAPPING ==
  << <<"Deathtouch", "DTH">>, <<"Flying", "FLY">>, <<"Haste", "HST">>,
     <<"Lifelink", "LLK">>, <<"Menace", "MEN">>, <<"Trample", "TRP">>,
     <<"Vigilance", "VIG">>, <<"Exile", "EXL">> >>

NUMBER_MAPPING ==
  << <<"One", "1">>, <<"Two", "2">>, <<"Three", "3">>, <<"Four", "4">>,
     <<"First", "1st">>, <<"Second", "2nd">>, <<"Third", "3rd">> >>

TEXT_MAPPING ==
  << <<"\n", " ">>, <<" ~ ", "~">>, <<"+1/+1", "PP">>,
     <<"At the beginning", "ATB">>, <<"Combat", "CBT">>,
     <<"Counter", "CT">>, <<"Create", "CTE">>, <<"Creature", "CR">>,
     <<"Destroy target", "DT">>, <<"Double strike", "DS">>,
     <<"Draw a card", "DAC">>, <<"Enchant creature", "EC">>,
     <<"End of turn", "EOT">>, <<"Enters the battlefield", "ETB">>,
     <<"Exile target", "EXT">>, <<"Leaves the battlefield", "LTB">>,
     <<"Mana value", "MV">>, <<"Permanent", "PM">>, <<"Player", "PYR">>,
     <<"Return target", "RT">>, <<"Scry", "SC">>,
     <<"Search your library", "SYL">>, <<"Surveil", "SU">>,
     <<"Target", "TR">>, <<"Token", "TKN">>, <<"Whenever", "WN">>,
     <<"You control", "YC">>, <<"You gain", "YG">> >>

MANA_COST_MAPPING == << <<"{", "">>, <<"}", "">> >>

(***************************************************************************)
(* Python's string methods.                                                *)
(***************************************************************************)
UpperCase == "ABCDEFGHIJKLMNOPQRSTUVWXYZ"
LowerCase == "abcdefghijklmnopqrstuvwxyz"

\* str.lower() of one character: an ASCII capital becomes its small letter.
LowerChar(c) ==
  IF \E i \in 1..26 : SubSeq(UpperCase, i, i) = c
    THEN LET i == CHOOSE j \in 1..26 : SubSeq(UpperCase, j, j) = c
         IN  SubSeq(LowerCase, i, i)
    ELSE c

RECURSIVE LowerFrom(_, _)
LowerFrom(s, i) ==
  IF i > Len(s) THEN "" ELSE LowerChar(SubSeq(s, i, i)) \o LowerFrom(s, i + 1)

\* str.lower()
Lower(s) == LowerFrom(s, 1)

\* The least index >= i at which old occurs in s, or 0 (str.find, 1-based).
Find(s, old, i) ==
  LET n == Len(old)
      hits == {p \in i..(Len(s) - n + 1) : SubSeq(s, p, p + n - 1) = old}
  IN  IF hits = {} THEN 0 ELSE CHOOSE p \in hits : \A q \in hits : p <= q

Contains(s, old) == Find(s, old, 1) > 0

\* '(c)' between and around every character of s from index i on.
RECURSIVE Intersperse(_, _, _)
Intersperse(s, new, i) ==
  IF i > Len(s) THEN new
  ELSE new \o SubSeq(s, i, i) \o Intersperse(s, new, i + 1)

\* str.replace(old, new) from index i on: every non-overlapping occurrence,
\* leftmost first.
RECURSIVE ReplaceFrom(_, _, _, _)
ReplaceFrom(s, old, new, i) ==
  LET p == Find(s, old, i)
  IN  IF p = 0 THEN SubSeq(s, i, Len(s))
      ELSE SubSeq(s, i, p - 1) \o new \o ReplaceFrom(s, old, new, p + Len(old))

\* str.replace(old, new); an empty old matches at every position.
Replace(s, old, new) ==
  IF old = "" THEN Intersperse(s, new, 1)
  ELSE IF Find(s, old, 1) = 0 THEN s
  ELSE ReplaceFrom(s, old, new, 1)

\* The greatest index at which the character c occurs in s, or 0.
LastIndex(s, c) ==
  LET hits == {p \in 1..Len(s) : SubSeq(s, p, p) = c}
  IN  IF hits = {} THEN 0 ELSE CHOOSE p \in hits : \A q \in hits : q <= p

\* re.sub(r'\(.*\)', '', line) on a text without a line break: '.*' is
\* greedy, so the one match runs from the first '(' to the last ')'.
SubParensLine(line) ==
  LET p == Find(line, "(", 1)
      q == LastIndex(line, ")")
  IN  IF p > 0 /\ q > p
        THEN SubSeq(line, 1, p - 1) \o SubSeq(line, q + 1, Len(line))
        ELSE line

\* re.sub(r'\(.*\)', '', s): '.' matches no line break, so every line of s
\* is matched on its own.
RECURSIVE SubParens(_)
SubParens(s) ==
  LET n == Find(s, "\n", 1)
  IN  IF n = 0 THEN SubParensLine(s)
      ELSE SubParensLine(SubSeq(s, 1, n - 1)) \o "\n"
             \o SubParens(SubSeq(s, n + 1, Len(s)))

\* The characters \s and str.strip() take for whitespace.
IsSpace(c) == c \in {" ", "\t", "\n", "\r", "\f"}

\* The least index >= i of a character of s that is no whitespace,
\* Len(s) + 1 when there is none.
FirstNonSpace(s, i) ==
  LET hits == {p \in i..Len(s) : ~IsSpace(SubSeq(s, p, p))}
  IN  IF hits = {} THEN Len(s) + 1
      ELSE CHOOSE p \in hits : \A q \in hits : p <= q

\* The greatest index of a character of s that is no whitespace, 0 when
\* there is none.
LastNonSpace(s) ==
  LET hits == {p \in 1..Len(s) : ~IsSpace(SubSeq(s, p, p))}
  IN  IF hits = {} THEN 0 ELSE CHOOSE p \in hits : \A q \in hits : q <= p

\* The least index >= i of a whitespace character of s, 0 when there is
\* none.
FirstSpace(s, i) ==
  LET hits == {p \in i..Len(s) : IsSpace(SubSeq(s, p, p))}
  IN  IF hits = {} THEN 0 ELSE CHOOSE p \in hits : \A q \in hits : p <= q

\* str.strip()
Strip(s) == SubSeq(s, FirstNonSpace(s, 1), LastNonSpace(s))

\* re.sub(r'\s+', ' ', s) from index i on: each run of whitespace becomes
\* one space.
RECURSIVE SubSpaces(_, _)
SubSpaces(s, i) ==
  LET p == FirstSpace(s, i)
  IN  IF p = 0 THEN SubSeq(s, i, Len(s))
      ELSE SubSeq(s, i, p - 1) \o " " \o SubSpaces(s, FirstNonSpace(s, p))

(***************************************************************************)
(* The abbreviation loops of load_mtg_set.                                 *)
(***************************************************************************)
\* A dictionary with from_str.lower() beside every key:
\* <<from_str, from_str.lower(), to_str>>.
WithLower(mapping) ==
  [i \in DOMAIN mapping |->
     <<mapping[i][1], Lower(mapping[i][1]), mapping[i][2]>>]

\* text = text.lower().replace(from_str.lower(), to_str) as the second
\* replacement.
ApplyPairLowered(s, rule) ==
  Replace(Lower(Replace(s, rule[1], rule[3])), rule[2], rule[3])

\* One pair of a dictionary on s: the key as written, then the key in
\* small letters.
ApplyPair(s, rule) == Replace(Replace(s, rule[1], rule[3]), rule[2], rule[3])

\* for from_str, to_str in mapping.items(): the pairs i.. of the mapping, in
\* order, each as written and in small letters.  (IF Len(t) >= 0 makes TLC
\* compute t before it goes on to the next pair.)
RECURSIVE ApplyMappingFrom(_, _, _)
ApplyMappingFrom(s, rules, i) ==
  IF i > Len(rules) THEN s
  ELSE LET t == ApplyPair(s, rules[i])
       IN  IF Len(t) >= 0 THEN ApplyMappingFrom(t, rules, i + 1) ELSE t

ApplyMapping(s, rules) == ApplyMappingFrom(s, rules, 1)

\* The loops that replace the key as written only (the mana cost braces,
\* the land names in the card's name).
RECURSIVE ApplyExactFrom(_, _, _)
ApplyExactFrom(s, mapping, i) ==
  IF i > Len(mapping) THEN s
  ELSE LET t == Replace(s, mapping[i][1], mapping[i][2])
       IN  IF Len(t) >= 0 THEN ApplyExactFrom(t, mapping, i + 1) ELSE t

ApplyExact(s, mapping) == ApplyExactFrom(s, mapping, 1)

\* The dictionaries the loops with a lower() pass go through.
SuperTypeRules == WithLower(SUPER_TYPE_MAPPING)
SubTypeRules == WithLower(SUB_TYPE_MAPPING)
LandRules == WithLower(LAND_MAPPING)
KeywordRules == WithLower(KEYWORD_MAPPING)
NumberRules == WithLower(NUMBER_MAPPING)
TextRules == WithLower(TEXT_MAPPING)

\* The type line after the supertype, subtype and land loops.
NormalizeType(card_type) ==
  LET t1 == ApplyMapping(card_type, SuperTypeRules)
  IN  IF Len(t1) >= 0
        THEN LET t2 == ApplyMapping(t1, SubTypeRules)
             IN  IF Len(t2) >= 0 THEN ApplyMapping(t2, LandRules) ELSE t2
        ELSE t1

\* The text loops in the order of the loop body.
TextMappings ==
  << TextRules, SuperTypeRules, SubTypeRules, LandRules, KeywordRules,
     NumberRules >>

\* The text after the text loops k.. of TextMappings.
RECURSIVE AbbreviateFrom(_, _)
AbbreviateFrom(text, k) ==
  IF k > Len(TextMappings) THEN text
  ELSE LET t == ApplyMapping(text, TextMappings[k])
       IN  IF Len(t) >= 0 THEN AbbreviateFrom(t, k + 1) ELSE t

\* The rules text after the six dictionary loops and the mana cost loop.
AbbreviateText(text) ==
  LET t == AbbreviateFrom(text, 1)
  IN  IF Len(t) >= 0 THEN ApplyExact(t, MANA_COST_MAPPING) ELSE t

\* re.sub(r'\(.*?\)', '', text, count=1): the first '(' up to the first ')'
\* after it, once.
RemoveFirstExplanation(text) ==
  LET p == Find(text, "(", 1)
      q == IF p = 0 THEN 0 ELSE Find(text, ")", p + 1)
  IN  IF q > 0 THEN SubSeq(text, 1, p - 1) \o SubSeq(text, q + 1, Len(text))
      ELSE text

\* remove explaination text
RemoveExplanation(text) == SubParens(text)

\* replace card name in text with placeholder
ReplaceName(text, name) == Replace(text, name, "NAME")

\* clean up any extra whitespace
CleanWhitespace(text) == SubSpaces(Strip(text), 1)

\* The rules text of a card named name, as the loop body leaves it.
NormalizeText(text, name) ==
  LET t1 == AbbreviateText(text)
  IN  IF Len(t1) >= 0
        THEN CleanWhitespace(ReplaceName(RemoveExplanation(t1), name))
        ELSE t1

\* replace names of basic lands
NormalizeName(name) == ApplyExact(name, LAND_MAPPING)

\* strip braces from mana cost: None and '' are left as they are.
NormalizeManaCost(mana_cost) ==
  IF IsNone(mana_cost) \/ Val(mana_cost) = "" THEN mana_cost
  ELSE Some(ApplyExact(Val(mana_cost), MANA_COST_MAPPING))

HasRarity(rarity) == \E i \in DOMAIN RARITY_MAPPING : RARITY_MAPPING[i][1] = rarity

\* RARITY_MAPPING[rarity], for a rarity that is a key.
RarityCode(rarity) ==
  RARITY_MAPPING[CHOOSE i \in DOMAIN RARITY_MAPPING : RARITY_MAPPING[i][1] = rarity][2]

\* The exception the loop body raises on a row, <<>> when it raises none:
\* text.replace on None at the first text loop, then the rarity lookup.
RowError(row) ==
  IF IsNone(row.text) THEN <<"AttributeError", "replace">>
  ELSE IF ~HasRarity(row.rarity) THEN <<"KeyError", row.rarity>>
  ELSE <<>>

\* The dictionary appended to cards for a row the body raises nothing on.
NormalizeCard(row) ==
  [row EXCEPT !.type = NormalizeType(row.type),
              !.text = Some(NormalizeText(Val(row.text), row.name)),
              !.name = NormalizeName(row.name),
              !.rarity = RarityCode(row.rarity),
              !.mana_cost = NormalizeManaCost(row.mana_cost)]

(***************************************************************************)
(* generate_prompt: the two delimited-text blocks.                         *)
(***************************************************************************)
\* What csv writes for one value: '' for None, and a string with the
\* delimiter, the quote character or the line terminator in it between
\* double quotes, its own quotes doubled (QUOTE_MINIMAL).
CsvField(v) ==
  IF IsNone(v) THEN ""
  ELSE IF Contains(Val(v), "|") \/ Contains(Val(v), "\"") \/ Contains(Val(v), "\n")
    THEN "\"" \o Replace(Val(v), "\"", "\"\"") \o "\""
    ELSE Val(v)

\* writer.writerow: the fields joined by '|' and ended by "\n".
RECURSIVE CsvJoin(_, _)
CsvJoin(fields, i) ==
  IF i = Len(fields) THEN CsvField(fields[i]) \o "\n"
  ELSE CsvField(fields[i]) \o "|" \o CsvJoin(fields, i + 1)

CsvRow(fields) == CsvJoin(fields, 1)

explain_set(sd) ==
  "name|release|type\n" \o CsvRow(<<Some(sd.name), Some(sd.release), Some(sd.type)>>)

CardFields(card) ==
  << Some(card.type), card.mana_cost, Some(card.name), card.power,
     card.toughness, Some(card.rarity), card.text >>

RECURSIVE CardLines(_, _)
CardLines(cs, i) ==
  IF i > Len(cs) THEN ""
  ELSE CsvRow(CardFields(cs[i])) \o CardLines(cs, i + 1)

explain_cards(cs) ==
  "type|mana_cost|name|power|toughness|rarity|text\n" \o CardLines(cs, 1)

generate_prompt(sd, cs) == explain_set(sd) \o explain_cards(cs)

(***************************************************************************)
(* The inputs: the environment, the sets query's result and the cards      *)
(* query's result.                                                         *)
(***************************************************************************)
SetRows == { [name |-> "Dominaria", release |-> "2018-04-27", type |-> "expansion"] }

\* A row of the cards query; the columns the loop body passes through are
\* the same in every row.
Row(card_type, mana_cost, name, rarity, text) ==
  [ artist |-> "Artist", type |-> card_type, colors |-> "U",
    flavor_text |-> None, is_full_art |-> 0, is_reprint |-> 0,
    mana_cost |-> mana_cost, mana_value |-> 1, name |-> name, number |-> "1",
    original_release_date |-> None, power |-> None, rarity |-> rarity,
    text |-> text, toughness |-> None ]

\* The rows the runs of main are checked on.
CardRows ==
  { Row("Creature ~ Merfolk Wizard", Some("{2}{U}{U}"), "Tide Pool", "common",
        Some("Flying\n{T}: Draw a card. (Reminder text here)")),
    Row("Creature ~ Fish", Some("{4}{U}{U}{U}"), "Island Fish", "rare",
        Some("Island Fish doesn't untap.")),
    Row("Basic Land ~ Forest", None, "Forest", "common", Some("({T}: Add {G}.)")),
    Row("Creature ~ Bird", Some("{1}{U}"), "Storm Crow", "common", None),
    Row("Instant", Some("{U}{U}"), "Counterspell", "special",
        Some("Counter target spell.")),
    Row("Creature ~ Wall", Some("{U}"), "Wall of Air", "bonus", None) }

\* The sequences over S of length at most n.
RECURSIVE SeqsUpTo(_, _)
SeqsUpTo(S, n) ==
  IF n = 0 THEN {<<>>}
  ELSE LET shorter == SeqsUpTo(S, n - 1)
       IN  shorter \cup {Append(q, x) : q \in shorter, x \in S}

(***************************************************************************)
(* main and load_mtg_set.                                                  *)
(***************************************************************************)
Init ==
  /\ pc = "main"
  /\ env_key \in BOOLEAN
  /\ sets_rows \in SeqsUpTo(SetRows, 1)
  /\ rows \in SeqsUpTo(CardRows, MaxCards)
  /\ cursor = 0
  /\ set_data = None
  /\ cards = <<>>
  /\ error = <<>>
  /\ printed = None

\* openai.api_key = get_api_key(): os.environ[...] raises KeyError when the
\* variable is not set.
GetApiKey ==
  /\ pc = "main"
  /\ IF env_key
       THEN pc' = "sets" /\ error' = error
       ELSE pc' = "raised" /\ error' = <<"KeyError", "MTG_BOT_OPENAI_API_KEY">>
  /\ UNCHANGED <<env_key, sets_rows, rows, cursor, set_data, cards, printed>>

\* The loop over the sets query (LIMIT 1) and cards = []: set_data is bound
\* only by a row.
LoadSet ==
  /\ pc = "sets"
  /\ set_data' = IF sets_rows = <<>> THEN None ELSE Some(sets_rows[Len(sets_rows)])
  /\ cards' = <<>>
  /\ pc' = "cards"
  /\ UNCHANGED <<env_key, sets_rows, rows, cursor, error, printed>>

\* One pass of the loop over the cards query.
LoopCard ==
  /\ pc = "cards"
  /\ cursor < Len(rows)
  /\ LET row == rows[cursor + 1]
     IN  IF RowError(row) = <<>>
           THEN /\ cards' = Append(cards, NormalizeCard(row))
                /\ cursor' = cursor + 1
                /\ UNCHANGED <<pc, error>>
           ELSE /\ error' = RowError(row)
                /\ pc' = "raised"
                /\ UNCHANGED <<cards, cursor>>
  /\ UNCHANGED <<env_key, sets_rows, rows, set_data, printed>>

\* return (set_data, cards) after a set_data = None before the sets loop:
\* the return hands on whatever set_data is.
ReturnUnset ==
  /\ pc = "cards"
  /\ cursor = Len(rows)
  /\ pc' = "prompt"
  /\ UNCHANGED <<env_key, sets_rows, rows, cursor, set_data, cards, error, printed>>

\* return (set_data, cards): reading set_data when no row bound it raises
\* UnboundLocalError.
Return ==
  /\ pc = "cards"
  /\ cursor = Len(rows)
  /\ IF IsNone(set_data)
       THEN pc' = "raised" /\ error' = <<"UnboundLocalError", "set_data">>
       ELSE pc' = "prompt" /\ error' = error
  /\ UNCHANGED <<env_key, sets_rows, rows, cursor, set_data, cards, printed>>

\* gpt_prompt = generate_prompt(set_data, cards); print(gpt_prompt)
PrintPrompt ==
  /\ pc = "prompt"
  /\ printed' = Some(generate_prompt(Val(set_data), cards))
  /\ pc' = "done"
  /\ UNCHANGED <<env_key, sets_rows, rows, cursor, set_data, cards, error>>

Next == GetApiKey \/ LoadSet \/ LoopCard \/ Return \/ PrintPrompt

Spec == Init /\ [][Next]_vars

(***************************************************************************)
(* The loop body as a function of one row: main on a set of one card.  The *)
(* rules text is up to MaxTokens pieces of card text in a row: the two     *)
(* words of the card's name, whitespace, parentheses and a reminder text;  *)
(* or one multi-word key of TEXT_MAPPING, as written, in small letters or  *)
(* with wider spacing; or one replacement code.                            *)
(***************************************************************************)
NameWords == { <<"Tide", "Pool">>, <<"Island", "Fish">> }

NameOf(w) == w[1] \o " " \o w[2]

Tokens(w) == { w[1], w[2], " ", "\t", "\n", "(", ")", "(x)" }

\* The texts of at most n tokens.
RECURSIVE TokenTexts(_, _)
TokenTexts(w, n) ==
  IF n = 0 THEN {""}
  ELSE LET shorter == TokenTexts(w, n - 1)
       IN  shorter \cup {t \o k : t \in shorter, k \in Tokens(w)}

TokenRows ==
  UNION { { Row("Creature ~ Fish", Some("{U}"), NameOf(w), "common", Some(t)) :
              t \in TokenTexts(w, MaxTokens) } : w \in NameWords }

\* The keys of TEXT_MAPPING of more than one word.
PhraseRules ==
  { i \in DOMAIN TextRules :
      Contains(TextRules[i][1], " ") /\ TextRules[i][1] # " ~ " }

PhraseRows ==
  { Row("Enchantment ~ Aura", Some("{U}"), "Tide Pool", "common", Some(t)) :
      t \in {TextRules[i][1] : i \in PhraseRules}
              \cup {TextRules[i][2] : i \in PhraseRules} }

\* The same keys with two spaces between their words.
SpacedPhraseRows ==
  { Row("Enchantment ~ Aura", Some("{U}"), "Tide Pool", "common",
        Some(Replace(TextRules[i][1], " ", "  "))) : i \in PhraseRules }

\* The replacement codes of the dictionaries of the type and text loops,
\* but for the space that replaces a line break.
Codes ==
  UNION { {rules[i][3] : i \in DOMAIN rules} : rules \in
            {SuperTypeRules, SubTypeRules, LandRules, KeywordRules,
             NumberRules, TextRules} } \ {" "}

\* Rows whose type line and rules text are one replacement code.
CodeRows ==
  { Row(c, Some("{U}"), "Tide Pool", "common", Some(c)) : c \in Codes }

NormRows == TokenRows \cup PhraseRows \cup SpacedPhraseRows \cup CodeRows

InitNorm ==
  /\ pc = "main"
  /\ env_key = TRUE
  /\ sets_rows \in {<<r>> : r \in SetRows}
  /\ rows \in {<<r>> : r \in NormRows}
  /\ cursor = 0
  /\ set_data = None
  /\ cards = <<>>
  /\ error = <<>>
  /\ printed = None

SpecNorm == InitNorm /\ [][Next]_vars

(***************************************************************************)
(* The claims.  cards[i] is the record made of rows[i]: the loop appends   *)
(* one record per row and stops at the first row that raises.              *)
(***************************************************************************)
Normalized == 1..Len(cards)

RawText(i) == Val(rows[i].text)

OutText(i) == Val(cards[i].text)

\* A '(' of t is followed, later in t, by a ')'.
HasParenthetical(t) ==
  \E p \in 1..Len(t) : \E q \in (p + 1)..Len(t) :
    SubSeq(t, p, p) = "(" /\ SubSeq(t, q, q) = ")"

\* C2: the rules text of every normalized record holds no parenthetical
\* span: no '(' of it is followed later by a ')'.
C2_NoParentheticalSpan == \A i \in Normalized : ~HasParenthetical(OutText(i))

\* A row with a reminder text and a stray ')' before it was normalized, and
\* the stray ')' is what is left of the parentheses.
C2_Witness ==
  \E i \in Normalized :
    /\ HasParenthetical(RawText(i))
    /\ Contains(OutText(i), ")")

\* C1: the rules text of a normalized record holds no occurrence of the
\* name the row had before normalization.
C1_NoNameInText ==
  \A i \in Normalized :
    rows[i].name # "" => ~Contains(OutText(i), rows[i].name)

\* The number of non-overlapping occurrences of old in s from index i on.
RECURSIVE CountFrom(_, _, _)
CountFrom(s, old, i) ==
  LET p == Find(s, old, i)
  IN  IF p = 0 THEN 0 ELSE 1 + CountFrom(s, old, p + Len(old))

Count(s, old) == CountFrom(s, old, 1)

\* t without its reminder texts, each taken from a '(' to the first ')'
\* after it.
RECURSIVE WithoutReminders(_)
WithoutReminders(t) ==
  IF RemoveFirstExplanation(t) = t THEN t
  ELSE WithoutReminders(RemoveFirstExplanation(t))

\* C5: every occurrence of the row's name in the raw rules text outside
\* reminder text is the placeholder NAME in the normalized text.
C5_NameBecomesPlaceholder ==
  \A i \in Normalized :
    rows[i].name # "" =>
      Count(OutText(i), "NAME") >= Count(WithoutReminders(RawText(i)), rows[i].name)

\* Every parenthesis of t belongs to a reminder text, taken from a '(' to
\* the first ')' after it.
OnlyReminders(t) ==
  ~Contains(WithoutReminders(t), "(") /\ ~Contains(WithoutReminders(t), ")")

\* C6: reminder texts are deleted one by one, each from its '(' to the first
\* ')' after it: of a rules text whose parentheses all belong to reminder
\* texts, what lies outside them (between two of them too) is kept, so the
\* normalized text is what the loop body makes of the abbreviated text
\* without its reminder texts.
C6_RemindersRemovedSeparately ==
  \A i \in Normalized :
    OnlyReminders(RawText(i)) =>
      OutText(i) =
        CleanWhitespace(ReplaceName(WithoutReminders(AbbreviateText(RawText(i))),
                                    rows[i].name))

\* C7 as stated: a normalized record put through the text and type loops
\* again keeps its text and its type line (here for the records whose text
\* does not hold their name, which the placeholder step leaves alone).
C7_Idempotent ==
  \A i \in Normalized :
    ~Contains(OutText(i), cards[i].name) =>
      /\ NormalizeText(OutText(i), cards[i].name) = OutText(i)
      /\ NormalizeType(cards[i].type) = cards[i].type

\* C7 as amended: no replacement code holds a dictionary key, as written or
\* in small letters: the loops leave a rules text and a type line that are
\* one replacement code as they are.
C7_CodesAreStable ==
  \A i \in Normalized :
    /\ RawText(i) \in Codes => OutText(i) = RawText(i)
    /\ rows[i].type \in Codes => cards[i].type = rows[i].type

\* The record of a row whose text and type line are the code of 'Counter'
\* was made.
C7_Witness ==
  \E i \in Normalized :
    RawText(i) = "CT" /\ rows[i].type = "CT" /\ OutText(i) = "CT"

\* C9: a rules text that is one multi-word key of TEXT_MAPPING, as written
\* or in small letters, is normalized to that key's code.
C9_PhraseBecomesCode ==
  \A i \in Normalized : \A k \in PhraseRules :
    RawText(i) \in {TextRules[k][1], TextRules[k][2]} =>
      OutText(i) = TextRules[k][3]

Recognized == {"common", "uncommon", "rare", "mythic"}

\* load_mtg_set was called and is over: it raised or it returned.
LoadOver == env_key /\ pc \in {"raised", "prompt", "done"}

\* C3: a recognized rarity becomes its letter; with any other rarity on any
\* row of the query result load_mtg_set raises the lookup error on that
\* rarity, returns nothing, and main prints nothing.
C3_StrictRarity ==
  /\ \A i \in Normalized :
       cards[i].rarity =
         CASE rows[i].rarity = "common" -> "C"
           [] rows[i].rarity = "uncommon" -> "U"
           [] rows[i].rarity = "rare" -> "R"
           [] rows[i].rarity = "mythic" -> "M"
  /\ (LoadOver /\ \E i \in 1..Len(rows) : rows[i].rarity \notin Recognized) =>
       /\ pc = "raised"
       /\ printed = None
       /\ \E i \in 1..Len(rows) :
            rows[i].rarity \notin Recognized /\ error = <<"KeyError", rows[i].rarity>>

IsBasicLand(row) == Contains(row.type, "Basic Land")

\* C4: the basic land named Forest gets the name FoL and FoL for Forest in
\* its type line; a card that is no basic land keeps its name.
C4_OnlyBasicLandsRenamed ==
  \A i \in Normalized :
    /\ (IsBasicLand(rows[i]) /\ rows[i].name = "Forest") =>
         /\ cards[i].name = "FoL"
         /\ Contains(cards[i].type, "FoL")
         /\ ~Contains(cards[i].type, "Forest")
    /\ ~IsBasicLand(rows[i]) => cards[i].name = rows[i].name

\* C8 as stated: with no row from the sets query, load_mtg_set raises
\* nothing of its own: once the card loop is through, it returns and the
\* unset set value goes on to generate_prompt.
C8_UnsetUsedSilently ==
  (LoadOver /\ sets_rows = <<>> /\ cursor = Len(rows)) =>
    error = <<>> /\ pc \in {"prompt", "done"}

\* C8 as amended: with no row from the sets query, load_mtg_set never
\* returns and nothing is printed; once the card loop is through, the
\* return statement raises UnboundLocalError on set_data.
C8_UnsetRaises ==
  sets_rows = <<>> =>
    /\ pc \notin {"prompt", "done"}
    /\ printed = None
    /\ (LoadOver /\ cursor = Len(rows)) =>
         error = <<"UnboundLocalError", "set_data">>

\* No row from the sets query, a card normalized, and the return raised.
C8_Witness ==
  /\ sets_rows = <<>>
  /\ Len(cards) >= 1
  /\ pc = "raised"
  /\ error = <<"UnboundLocalError", "set_data">>

\* C10: every row with a recognized rarity gets through the loop body and
\* adds one record, a NULL rules text or mana cost included: the loop body
\* raises on a row only for its rarity.
C10_OnlyRarityFails ==
  /\ Len(cards) = cursor
  /\ (LoadOver /\ pc = "raised" /\ cursor < Len(rows)) =>
       rows[cursor + 1].rarity \notin Recognized

====
